---- MODULE Spec2Model ----
(***************************************************************************)
(* TwixT board engine (open_spiel/games/twixt): the Board of twixtboard.h  *)
(* / twixtboard.cc driven by TwixTState::DoApplyAction of twixt.h.         *)
(*                                                                         *)
(* Positions (Move) are pairs <<col, row>>, 0-based from the lower left.   *)
(* Bit masks are kept as the integers the code keeps.                      *)
(***************************************************************************)
EXTENDS Integers, Sequences, FiniteSets, TLC

VARIABLES
    size_,          \* Board::size_
    cell_,          \* Board::cell_ : [Move -> Cell]
    unsetColor,     \* what a Cell's color_ reads as while it was never written
    strayLink,      \* what HasLink reads from a cell outside cell_
    blockerSize,    \* board size the static blockerMap was last built for
    moveCounter_,   \* Board::moveCounter_
    swapped_,       \* Board::swapped_
    moveOne_,       \* Board::moveOne_
    result_,        \* Board::result_
    legalActions_,  \* Board::legalActions_[kNumPlayers], each a vector
    currentPlayer_, \* TwixTState::currentPlayer_
    lastAction,     \* the action index handed to the latest DoApplyAction
    codec,          \* one run of the action codec (ActionToMove / MoveToAction)
    clone_,         \* the TwixTState that Clone() returned, if any
    game_           \* the TwixTGame: its parameters and how far it got

vars ==
    << size_, cell_, unsetColor, strayLink, blockerSize, moveCounter_, swapped_,
       moveOne_, result_, legalActions_, currentPlayer_, lastAction, codec,
       clone_, game_ >>

boardVars ==
    << size_, cell_, unsetColor, strayLink, blockerSize, moveCounter_, swapped_,
       moveOne_, result_, legalActions_, currentPlayer_, lastAction, clone_,
       game_ >>

----------------------------------------------------------------------------
(* Program constants *)

kMinBoardSize ==
    5

kMaxBoardSize ==
    24

kRedPlayer ==
    0

kBluePlayer ==
    1

kNumPlayers ==
    2

kTerminalPlayerId ==
    -4

\* enum Result { kOpen, kRedWin, kBlueWin, kDraw }
kOpen ==
    0

kRedWin ==
    1

kBlueWin ==
    2

kDraw ==
    3

\* enum Color { kRedColor, kBlueColor, kEmpty, kOffBoard }
kRedColor ==
    0

kBlueColor ==
    1

kEmpty ==
    2

kOffBoard ==
    3

\* marker of a color_ no code has assigned yet (the Cell declares no default)
kUnset ==
    -1

\* enum Border { kStart, kEnd }
kStart ==
    0

kEnd ==
    1

\* enum Compass { kNNE, kENE, kESE, kSSE, kSSW, kWSW, kWNW, kNNW, kMaxCompass }
kNNE ==
    0

kENE ==
    1

kESE ==
    2

kSSE ==
    3

kSSW ==
    4

kWSW ==
    5

kWNW ==
    6

kNNW ==
    7

kMaxCompass ==
    8

Players ==
    {kRedPlayer, kBluePlayer}

Colors ==
    {kRedColor, kBlueColor, kEmpty, kOffBoard}

Borders ==
    {kStart, kEnd}

Compass ==
    0 .. (kMaxCompass - 1)

----------------------------------------------------------------------------
(* Bounds of the model *)

\* number of opening moves for which the driver may pick any legal action
FreeMoves ==
    2

\* largest board size of the swap specification
MaxSwapSize ==
    8

\* number of moves played in the local-play specification
MaxAreaMoves ==
    7

\* number of moves on a state and on its clone
MaxCloneMoves ==
    3

\* how far below kMinBoardSize and above kMaxBoardSize the board_size
\* parameters handed to the TwixTGame constructor go
ParamSlack ==
    2

\* largest board size whose blocker map is looked through link by link
MaxBlockerSize ==
    7

\* largest board size of the games played while other Boards are constructed
MaxOtherSize ==
    6

----------------------------------------------------------------------------
(* Helpers of twixtboard.cc *)

\* operator+ on std::pair<int,int>
MovePlus(l, r) ==
    << l[1] + r[1], l[2] + r[2] >>

OppDirQuarter(dir) ==
    (dir + kMaxCompass \div 4) % kMaxCompass

OppDir(dir) ==
    (dir + kMaxCompass \div 2) % kMaxCompass

\* cand is a one-bit mask (1 << dir)
OppCand(cand) ==
    IF cand < 16 THEN cand * 16 ELSE cand \div 16

Pow2(n) ==
    2 ^ n

\* mask & (1 << dir)
HasBit(mask, dir) ==
    (mask \div Pow2(dir)) % 2 = 1

\* mask & cand, for a one-bit cand
TestMask(mask, cand) ==
    (mask \div cand) % 2 = 1

\* mask | (1 << dir)
SetBit(mask, dir) ==
    IF HasBit(mask, dir) THEN mask ELSE mask + Pow2(dir)

\* mask & ~cand, for a one-bit cand
ClearMask(mask, cand) ==
    IF TestMask(mask, cand) THEN mask - cand ELSE mask

----------------------------------------------------------------------------
(* Geometry table: kLinkDescriptorTable[dir + 1] = [offsets, blockingLinks] *)

kLinkDescriptorTable ==
    << \* NNE
       [offsets |-> <<1, 2>>, blockingLinks |->
          << << <<0, 1>>, kENE >>, << <<-1, 0>>, kENE >>,
             << <<0, 2>>, kESE >>, << <<0, 1>>, kESE >>,
             << <<-1, 2>>, kESE >>, << <<-1, 1>>, kESE >>,
             << <<0, 1>>, kSSE >>, << <<0, 2>>, kSSE >>, << <<0, 3>>, kSSE >> >>],
       \* ENE
       [offsets |-> <<2, 1>>, blockingLinks |->
          << << <<0, -1>>, kNNE >>, << <<1, 0>>, kNNE >>,
             << <<-1, 1>>, kESE >>, << <<0, 1>>, kESE >>, << <<1, 1>>, kESE >>,
             << <<0, 1>>, kSSE >>, << <<0, 2>>, kSSE >>,
             << <<1, 1>>, kSSE >>, << <<1, 2>>, kSSE >> >>],
       \* ESE
       [offsets |-> <<2, -1>>, blockingLinks |->
          << << <<0, -1>>, kNNE >>, << <<1, -1>>, kNNE >>,
             << <<0, -2>>, kNNE >>, << <<1, -2>>, kNNE >>,
             << <<-1, -1>>, kENE >>, << <<0, -1>>, kENE >>, << <<1, -1>>, kENE >>,
             << <<0, 1>>, kSSE >>, << <<1, 0>>, kSSE >> >>],
       \* SSE
       [offsets |-> <<1, -2>>, blockingLinks |->
          << << <<0, -1>>, kNNE >>, << <<0, -2>>, kNNE >>, << <<0, -3>>, kNNE >>,
             << <<-1, -1>>, kENE >>, << <<0, -1>>, kENE >>,
             << <<-1, -2>>, kENE >>, << <<0, -2>>, kENE >>,
             << <<-1, 0>>, kESE >>, << <<0, -1>>, kESE >> >>],
       \* SSW
       [offsets |-> <<-1, -2>>, blockingLinks |->
          << << <<-1, -1>>, kENE >>, << <<-2, -2>>, kENE >>,
             << <<-2, 0>>, kESE >>, << <<-1, 0>>, kESE >>,
             << <<-2, -1>>, kESE >>, << <<-1, -1>>, kESE >>,
             << <<-1, 1>>, kSSE >>, << <<-1, 0>>, kSSE >>, << <<-1, -1>>, kSSE >> >>],
       \* WSW
       [offsets |-> <<-2, -1>>, blockingLinks |->
          << << <<-2, -2>>, kNNE >>, << <<-1, -1>>, kNNE >>,
             << <<-3, 0>>, kESE >>, << <<-2, 0>>, kESE >>, << <<-1, 0>>, kESE >>,
             << <<-2, 1>>, kSSE >>, << <<-1, 1>>, kSSE >>,
             << <<-2, 0>>, kSSE >>, << <<-1, 0>>, kSSE >> >>],
       \* WNW
       [offsets |-> <<-2, 1>>, blockingLinks |->
          << << <<-2, 0>>, kNNE >>, << <<-1, 0>>, kNNE >>,
             << <<-2, -1>>, kNNE >>, << <<-1, -1>>, kNNE >>,
             << <<-3, 0>>, kENE >>, << <<-2, 0>>, kENE >>, << <<-1, 0>>, kENE >>,
             << <<-2, 2>>, kSSE >>, << <<-1, 1>>, kSSE >> >>],
       \* NNW
       [offsets |-> <<-1, 2>>, blockingLinks |->
          << << <<-1, 1>>, kNNE >>, << <<-1, 0>>, kNNE >>, << <<-1, -1>>, kNNE >>,
             << <<-2, 1>>, kENE >>, << <<-1, 1>>, kENE >>,
             << <<-2, 0>>, kENE >>, << <<-1, 0>>, kENE >>,
             << <<-2, 2>>, kESE >>, << <<-1, 1>>, kESE >> >>] >>

\* kLinkDescriptorTable[dir].offsets
Offsets(dir) ==
    kLinkDescriptorTable[dir + 1].offsets

\* as BlockingLinks, with a slip in the first NNE entry: {0, 0} for {0, 1}
BlockingLinksSlip(dir) ==
    IF dir = kNNE
    THEN [kLinkDescriptorTable[dir + 1].blockingLinks
            EXCEPT ![1] = << <<0, 0>>, kENE >>]
    ELSE kLinkDescriptorTable[dir + 1].blockingLinks

\* kLinkDescriptorTable[dir].blockingLinks
BlockingLinks(dir) ==
    kLinkDescriptorTable[dir + 1].blockingLinks

----------------------------------------------------------------------------
(* Board geometry *)

Positions(n) ==
    (0 .. (n - 1)) \X (0 .. (n - 1))

MoveIsOffBoard(n, move) ==
    \/ move[2] < 0
    \/ move[2] > n - 1
    \/ move[1] < 0
    \/ move[1] > n - 1
    \/ /\ (move[1] = 0 \/ move[1] = n - 1)
       /\ (move[2] = 0 \/ move[2] = n - 1)

MoveIsOnBorder(n, player, move) ==
    IF player = kRedPlayer
    THEN /\ (move[2] = 0 \/ move[2] = n - 1)
         /\ (move[1] > 0 /\ move[1] < n - 1)
    ELSE /\ (move[1] = 0 \/ move[1] = n - 1)
         /\ (move[2] > 0 /\ move[2] < n - 1)

----------------------------------------------------------------------------
(* Action codec *)

NumDistinctActions(n) ==
    n * (n - 2)

MaxGameLengthNoSwap(n) ==
    n * n - 4

\* TwixTGame::MaxGameLength: square - 4 corners + swap move
MaxGameLength(n) ==
    n * n - 4 + 1

\* C++ integer division and remainder (truncating towards zero)
CDiv(a, b) ==
    IF a >= 0 THEN a \div b ELSE -((-a) \div b)

CMod(a, b) ==
    a - b * CDiv(a, b)

ActionToMoveShift(n, player, action) ==
    IF player = kRedPlayer
    THEN << CDiv(action, n) + 1, CMod(action, n) >>
    ELSE << CMod(action, n), n - CDiv(action, n) - 1 >>

ActionToMove(n, player, action) ==
    IF player = kRedPlayer
    THEN << CDiv(action, n) + 1, CMod(action, n) >>
    ELSE << CMod(action, n), n - CDiv(action, n) - 2 >>

MoveToActionShift(n, player, move) ==
    IF player = kRedPlayer
    THEN (move[1] - 1) * n + move[2]
    ELSE (n - move[2] - 1) * n + move[1]

MoveToAction(n, player, move) ==
    IF player = kRedPlayer
    THEN (move[1] - 1) * n + move[2]
    ELSE (n - move[2] - 2) * n + move[1]

----------------------------------------------------------------------------
(* Blocker map: the content InitializeCells(true) leaves in the static     *)
(* blockerMap for a board of size n                                        *)

\* the two links PushBlocker registers for one table entry, or none
EntryBlockersOneWay(n, move, entry) ==
    LET fromMove == MovePlus(move, entry[1])
        toMove   == MovePlus(fromMove, Offsets(entry[2]))
    IN  IF ~MoveIsOffBoard(n, fromMove) /\ ~MoveIsOffBoard(n, toMove)
        THEN { << fromMove, entry[2] >> }
        ELSE {}

EntryBlockers(n, move, entry) ==
    LET fromMove == MovePlus(move, entry[1])
        toMove   == MovePlus(fromMove, Offsets(entry[2]))
    IN  IF ~MoveIsOffBoard(n, fromMove) /\ ~MoveIsOffBoard(n, toMove)
        THEN { << fromMove, entry[2] >>, << toMove, OppDir(entry[2]) >> }
        ELSE {}

\* Board::InitializeBlockerMap(move, dir, ld): the set stored under {move, dir}
InitializeBlockerMap(n, move, dir) ==
    UNION { EntryBlockers(n, move, BlockingLinks(dir)[i]) :
              i \in 1 .. Len(BlockingLinks(dir)) }

\* blockerMap[link] after construction of a board of size n: filled for the
\* links InitializeCandidates visits, empty (operator[] default) otherwise
BlockerMapOf(n, link) ==
    IF /\ ~MoveIsOffBoard(n, link[1])
       /\ ~MoveIsOffBoard(n, MovePlus(link[1], Offsets(link[2])))
    THEN InitializeBlockerMap(n, link[1], link[2])
    ELSE {}

GetBlockers(link) ==
    BlockerMapOf(blockerSize, link)

----------------------------------------------------------------------------
(* Cell (twixtcell.h): color, link mask, candidate masks, blocked mask,    *)
(* recorded neighbours, linked-to-border flags                             *)

\* a Cell as std::vector<Cell>(n) creates it: nothing set, color_ not assigned
NewCell ==
    [ color            |-> kUnset,
      links            |-> 0,
      candidates       |-> << 0, 0 >>,
      blockedNeighbors |-> 0,
      neighbors        |-> 0,
      linkedToBorder   |-> {} ]

\* Cell::GetColor: a color_ never assigned reads as unsetColor
GetColor(cell) ==
    IF cell.color = kUnset THEN unsetColor ELSE cell.color

SetColor(cell, color) ==
    [cell EXCEPT !.color = color]

GetLinks(cell) ==
    cell.links

\* Cell::IsLinked(int cand)
IsLinked(cell, link) ==
    TestMask(cell.links, link)

HasLink(cell, dir) ==
    HasBit(cell.links, dir)

SetLink(cell, dir) ==
    [cell EXCEPT !.links = SetBit(@, dir)]

GetCandidates(cell, player) ==
    cell.candidates[player + 1]

IsCandidate(cell, player, cand) ==
    TestMask(cell.candidates[player + 1], cand)

SetCandidate(cell, player, dir) ==
    [cell EXCEPT !.candidates[player + 1] = SetBit(@, dir)]

DeleteCandidate(cell, player, cand) ==
    [cell EXCEPT !.candidates[player + 1] = ClearMask(@, cand)]

\* Cell::SetBlockedNeighbor, called with the candidate bit
SetBlockedNeighbor(cell, cand) ==
    [cell EXCEPT !.blockedNeighbors =
        IF TestMask(@, cand) THEN @ ELSE @ + cand]

\* Cell::SetNeighbor(dir, targetMove): targetMove is always move + offsets(dir)
SetNeighbor(cell, dir) ==
    [cell EXCEPT !.neighbors = SetBit(@, dir)]

\* Cell::GetNeighbor(dir) of the cell at move; a neighbour never recorded is
\* the default Move {0, 0}
GetNeighbor(move, cell, dir) ==
    IF HasBit(cell.neighbors, dir)
    THEN MovePlus(move, Offsets(dir))
    ELSE << 0, 0 >>

SetLinkedToBorder(cell, player, border) ==
    [cell EXCEPT !.linkedToBorder = @ \cup { << player, border >> }]

IsLinkedToBorder(cell, player, border) ==
    << player, border >> \in cell.linkedToBorder

----------------------------------------------------------------------------
(* Board construction *)

RECURSIVE InitializeCandidatesFrom(_, _, _, _)
\* the loop of Board::InitializeCandidates from direction dir on
InitializeCandidatesFrom(n, move, cell, dir) ==
    IF dir >= kMaxCompass
    THEN cell
    ELSE LET targetMove == MovePlus(move, Offsets(dir))
             withNb     == SetNeighbor(cell, dir)
             crossing   ==
                 \/ /\ MoveIsOnBorder(n, kRedPlayer, move)
                    /\ MoveIsOnBorder(n, kBluePlayer, targetMove)
                 \/ /\ MoveIsOnBorder(n, kBluePlayer, move)
                    /\ MoveIsOnBorder(n, kRedPlayer, targetMove)
         IN  IF MoveIsOffBoard(n, targetMove)
             THEN InitializeCandidatesFrom(n, move, cell, dir + 1)
             ELSE IF crossing
                  THEN InitializeCandidatesFrom(n, move, withNb, dir + 1)
                  ELSE InitializeCandidatesFrom(n, move,
                           SetCandidate(SetCandidate(withNb, kRedPlayer, dir),
                                        kBluePlayer, dir),
                           dir + 1)

\* Board::InitializeCandidates(move, cell, initBlockerMap): the cell it leaves
InitializeCandidates(n, move, cell) ==
    InitializeCandidatesFrom(n, move, cell, 0)

\* the local `Cell cell = GetCell(move)` of InitializeCells at the end of one
\* loop body
InitializedCopy(n, move, stored) ==
    IF MoveIsOffBoard(n, move)
    THEN SetColor(stored, kOffBoard)
    ELSE LET empty == SetColor(stored, kEmpty)
             flagged ==
                 IF move[1] = 0
                 THEN SetLinkedToBorder(empty, kBluePlayer, kStart)
                 ELSE IF move[1] = n - 1
                 THEN SetLinkedToBorder(empty, kBluePlayer, kEnd)
                 ELSE IF move[2] = 0
                 THEN SetLinkedToBorder(empty, kRedPlayer, kStart)
                 ELSE IF move[2] = n - 1
                 THEN SetLinkedToBorder(empty, kRedPlayer, kEnd)
                 ELSE empty
         IN  InitializeCandidates(n, move, flagged)

\* Board::InitializeCells: cell_ after it.  The loop body changes the copy
\* `Cell cell = GetCell(move)`, never written back, so cell_ keeps the cells
\* that resize() created.
InitializeCells(n) ==
    [move \in Positions(n) |-> NewCell]

\* 0, 1, ..., k - 1 in push_back order
Iota(k) ==
    [i \in 1 .. k |-> i - 1]

\* as InitializeLegalActions, filling Red's vector only
InitializeLegalActionsRed(n) ==
    << Iota(NumDistinctActions(n)), << >> >>

\* Board::InitializeLegalActions
InitializeLegalActions(n) ==
    << Iota(NumDistinctActions(n)), Iota(NumDistinctActions(n)) >>

----------------------------------------------------------------------------
(* Legal actions *)

RECURSIVE FindFirst(_, _, _)
\* std::find: index of the first element equal to x from index i, 0 if none
FindFirst(seq, x, i) ==
    IF i > Len(seq) THEN 0
    ELSE IF seq[i] = x THEN i
    ELSE FindFirst(seq, x, i + 1)

\* as RemoveLegalAction, always encoding the move as Red's action
RemoveLegalActionRed(n, la, player, move) ==
    LET action == MoveToAction(n, kRedPlayer, move)
        seq    == la[player + 1]
        it     == FindFirst(seq, action, 1)
    IN  IF it = 0
        THEN la
        ELSE [la EXCEPT ![player + 1] =
                 SubSeq(seq, 1, it - 1) \o SubSeq(seq, it + 1, Len(seq))]

\* as RemoveLegalAction, erasing from the found entry to the end
RemoveLegalActionTail(n, la, player, move) ==
    LET action == MoveToAction(n, player, move)
        seq    == la[player + 1]
        it     == FindFirst(seq, action, 1)
    IN  IF it = 0
        THEN la
        ELSE [la EXCEPT ![player + 1] = SubSeq(seq, 1, it - 1)]

\* Board::RemoveLegalAction(player, move) on the pair of vectors la
RemoveLegalAction(n, la, player, move) ==
    LET action == MoveToAction(n, player, move)
        seq    == la[player + 1]
        it     == FindFirst(seq, action, 1)
    IN  IF it = 0
        THEN la
        ELSE [la EXCEPT ![player + 1] =
                 SubSeq(seq, 1, it - 1) \o SubSeq(seq, it + 1, Len(seq))]

HasLegalActionsAny(la, player) ==
    Len(la[1]) > 0 \/ Len(la[2]) > 0

HasLegalActions(la, player) ==
    Len(la[player + 1]) > 0

----------------------------------------------------------------------------
(* Connectivity *)

RECURSIVE ExploreLocalGraphFrom(_, _, _, _, _)
\* the loop of Board::ExploreLocalGraph(player, cell at move, border) from
\* direction dir on; the cells it leaves
ExploreLocalGraphFrom(cells, player, move, border, dir) ==
    IF Pow2(dir) > GetLinks(cells[move])
    THEN cells
    ELSE IF ~IsLinked(cells[move], Pow2(dir))
    THEN ExploreLocalGraphFrom(cells, player, move, border, dir + 1)
    ELSE LET target == GetNeighbor(move, cells[move], dir)
         IN  IF IsLinkedToBorder(cells[target], player, border)
             THEN ExploreLocalGraphFrom(cells, player, move, border, dir + 1)
             ELSE ExploreLocalGraphFrom(
                      ExploreLocalGraphFrom(
                          [cells EXCEPT ![target] =
                              SetLinkedToBorder(@, player, border)],
                          player, target, border, 0),
                      player, move, border, dir + 1)

ExploreLocalGraph(cells, player, move, border) ==
    ExploreLocalGraphFrom(cells, player, move, border, 0)

\* GetCell(bl.first).HasLink(bl.second): cell_[x][y] is not range-checked, so
\* a blocker outside cell_ reads whatever the memory there holds
BlockerSet(cells, bl) ==
    IF bl[1] \in DOMAIN cells
    THEN HasLink(cells[bl[1]], bl[2])
    ELSE strayLink

\* whether a link registered as blocker of {move, dir} is set
IsBlocked(cells, move, dir) ==
    \E bl \in GetBlockers(<< move, dir >>) : BlockerSet(cells, bl)

\* the border flags and locals SetPegAndLinks sets after it has set the link
\* of move to target; linked are the cells with the link set
NoteLink(st, linked, player, move, target) ==
    IF IsLinkedToBorder(linked[target], player, kStart)
    THEN [st EXCEPT
             !.cells = [linked EXCEPT ![move] =
                           SetLinkedToBorder(@, player, kStart)],
             !.newLinks = TRUE]
    ELSE IF IsLinkedToBorder(linked[target], player, kEnd)
    THEN [st EXCEPT
             !.cells = [linked EXCEPT ![move] =
                           SetLinkedToBorder(@, player, kEnd)],
             !.newLinks = TRUE]
    ELSE [st EXCEPT !.cells = linked,
                    !.newLinks = TRUE,
                    !.linkedToNeutral = TRUE]

\* the candidate loop's branch for a neighbour at target that is not empty
LinkTarget(st, player, move, dir, target) ==
    IF ~IsBlocked(st.cells, move, dir)
    THEN NoteLink(st,
                  [st.cells EXCEPT ![move]   = SetLink(@, dir),
                                   ![target] = SetLink(@, OppDir(dir))],
                  player, move, target)
    ELSE [st EXCEPT !.cells =
             [st.cells EXCEPT
                 ![move]   = SetBlockedNeighbor(@, Pow2(dir)),
                 ![target] = SetBlockedNeighbor(@, OppCand(Pow2(dir)))]]

\* one pass of the candidate loop of SetPegAndLinks for a candidate direction
\* whose neighbour is not empty; st = [cells, newLinks, linkedToNeutral]
LinkCandidate(st, player, move, dir) ==
    LinkTarget(st, player, move, dir, GetNeighbor(move, st.cells[move], dir))

RECURSIVE CandidateLoop(_, _, _, _)
\* the candidate loop of SetPegAndLinks from direction dir on
CandidateLoop(st, player, move, dir) ==
    IF Pow2(dir) > GetCandidates(st.cells[move], player)
    THEN st
    ELSE IF ~IsCandidate(st.cells[move], player, Pow2(dir))
    THEN CandidateLoop(st, player, move, dir + 1)
    ELSE LET target == GetNeighbor(move, st.cells[move], dir)
         IN  IF GetColor(st.cells[target]) = kEmpty
             THEN CandidateLoop(
                      [st EXCEPT !.cells[target] =
                          DeleteCandidate(@, 1 - player, OppCand(Pow2(dir)))],
                      player, move, dir + 1)
             ELSE CandidateLoop(LinkCandidate(st, player, move, dir),
                                player, move, dir + 1)

\* the exploration from the start border at the end of SetPegAndLinks
ExploreStart(st, player, move) ==
    IF /\ st.newLinks
       /\ IsLinkedToBorder(st.cells[move], player, kStart)
       /\ st.linkedToNeutral
    THEN ExploreLocalGraph(st.cells, player, move, kStart)
    ELSE st.cells

\* the exploration from the end border that follows it, on cells
ExploreEnd(st, cells, player, move) ==
    IF /\ st.newLinks
       /\ IsLinkedToBorder(cells[move], player, kEnd)
       /\ st.linkedToNeutral
    THEN ExploreLocalGraph(cells, player, move, kEnd)
    ELSE cells

\* "check if we need to explore further", for the locals st of the loop
ExploreFurther(st, player, move) ==
    ExploreEnd(st, ExploreStart(st, player, move), player, move)

\* Board::SetPegAndLinks(player, move): the cells it leaves
SetPegAndLinks(cells, player, move) ==
    ExploreFurther(
        CandidateLoop(
            [cells           |-> [cells EXCEPT ![move] = SetColor(@, player)],
             newLinks        |-> FALSE,
             linkedToNeutral |-> FALSE],
            player, move, 0),
        player, move)

----------------------------------------------------------------------------
(* Board engine; a board b is the record of the Board's data members *)

UpdateResultOwn(b, player, move) ==
    LET connectedToStart == IsLinkedToBorder(b.cell[move], player, kStart)
        connectedToEnd   == IsLinkedToBorder(b.cell[move], player, kEnd)
    IN  IF connectedToStart /\ connectedToEnd
        THEN [b EXCEPT !.result =
                 IF player = kRedPlayer THEN kRedWin ELSE kBlueWin]
        ELSE IF b.moveCounter < b.size - 1
        THEN b
        ELSE IF ~HasLegalActions(b.legalActions, player)
        THEN [b EXCEPT !.result = kDraw]
        ELSE b

\* Board::UpdateResult(player, move)
UpdateResult(b, player, move) ==
    LET connectedToStart == IsLinkedToBorder(b.cell[move], player, kStart)
        connectedToEnd   == IsLinkedToBorder(b.cell[move], player, kEnd)
    IN  IF connectedToStart /\ connectedToEnd
        THEN [b EXCEPT !.result =
                 IF player = kRedPlayer THEN kRedWin ELSE kBlueWin]
        ELSE IF b.moveCounter < b.size - 1
        THEN b
        ELSE IF ~HasLegalActions(b.legalActions, 1 - player)
        THEN [b EXCEPT !.result = kDraw]
        ELSE b

\* as UndoFirstMove, with the peg left standing
UndoFirstMoveKeepPeg(b) ==
    [b EXCEPT
        !.cell[b.moveOne] = InitializeCandidates(b.size, b.moveOne, @),
        !.legalActions = InitializeLegalActions(b.size)]

\* Board::UndoFirstMove
UndoFirstMove(b) ==
    [b EXCEPT
        !.cell[b.moveOne] =
            InitializeCandidates(b.size, b.moveOne, SetColor(@, kEmpty)),
        !.legalActions = InitializeLegalActions(b.size)]

\* as RotateMove, turning counter-clockwise
RotateMoveLeft(n, move) ==
    << move[2], n - move[1] - 1 >>

\* the swap's turn of the move by 90 degrees clockwise, in ApplyAction
RotateMove(n, move) ==
    << n - move[2] - 1, move[1] >>

\* as SecondMove, taking move one from the legal actions after a swap too
SecondMoveRemoveOnSwap(b, decoded) ==
    IF b.moveCounter # 1
    THEN b
    ELSE [(IF decoded = b.moveOne
           THEN UndoFirstMove([b EXCEPT !.swapped = TRUE])
           ELSE b)
             EXCEPT !.legalActions =
                 RemoveLegalAction(b.size,
                     RemoveLegalAction(b.size, @, kRedPlayer, b.moveOne),
                     kBluePlayer, b.moveOne)]

SecondMoveKeepFirst(b, decoded) ==
    IF b.moveCounter # 1
    THEN b
    ELSE IF decoded = b.moveOne
    THEN UndoFirstMove([b EXCEPT !.swapped = TRUE])
    ELSE b

\* the second-move block of ApplyAction for the decoded move: the swap undoes
\* the first move, any other second move takes move one from the legal actions
SecondMove(b, decoded) ==
    IF b.moveCounter # 1
    THEN b
    ELSE IF decoded = b.moveOne
    THEN UndoFirstMove([b EXCEPT !.swapped = TRUE])
    ELSE [b EXCEPT !.legalActions =
             RemoveLegalAction(b.size,
                 RemoveLegalAction(b.size, @, kRedPlayer, b.moveOne),
                 kBluePlayer, b.moveOne)]

\* the move ApplyAction goes on with: the decoded move, turned if it swaps
MoveToPlace(b, decoded) ==
    IF b.moveCounter = 1 /\ decoded = b.moveOne
    THEN RotateMove(b.size, decoded)
    ELSE decoded

\* after SetPegAndLinks: the first move is stored, any other is taken from
\* the legal actions; then the move counter is incremented
StoreOrRemove(b, move) ==
    IF b.moveCounter = 0
    THEN [b EXCEPT !.moveOne = move, !.moveCounter = @ + 1]
    ELSE [b EXCEPT !.legalActions =
                       RemoveLegalAction(b.size,
                           RemoveLegalAction(b.size, @, kRedPlayer, move),
                           kBluePlayer, move),
                   !.moveCounter = @ + 1]

\* ApplyAction from SetPegAndLinks on, for the board b after the second-move
\* block
PlaceMove(b, player, move) ==
    UpdateResult(
        StoreOrRemove([b EXCEPT !.cell = SetPegAndLinks(@, player, move)], move),
        player, move)

\* ApplyAction for the move its action decodes to
ApplyDecoded(b, player, decoded) ==
    PlaceMove(SecondMove(b, decoded), player, MoveToPlace(b, decoded))

\* Board::ApplyAction(player, action)
ApplyAction(b, player, action) ==
    ApplyDecoded(b, player, ActionToMove(b.size, player, action))

\* the Board held by the TwixTState
Board ==
    [ size         |-> size_,
      cell         |-> cell_,
      moveCounter  |-> moveCounter_,
      swapped      |-> swapped_,
      moveOne      |-> moveOne_,
      result       |-> result_,
      legalActions |-> legalActions_ ]

\* Board::Board(size, ansiColorOutput)
NewBoard(n) ==
    [ size         |-> n,
      cell         |-> InitializeCells(n),
      moveCounter  |-> 0,
      swapped      |-> FALSE,
      moveOne      |-> << 0, 0 >>,
      result       |-> kOpen,
      legalActions |-> InitializeLegalActions(n) ]

----------------------------------------------------------------------------
(* TwixTState *)

\* discounts are counted in hundredths: kMinDiscount = 0.0
kMinDiscount ==
    0

\* kMaxDiscount = 1.0, in hundredths
kMaxDiscount ==
    100

kDefaultDiscount ==
    kMaxDiscount

BoardSizeRejectedAtMin(boardSize) ==
    boardSize <= kMinBoardSize \/ boardSize > kMaxBoardSize

\* the board_size test of TwixTGame::TwixTGame
BoardSizeRejected(boardSize) ==
    boardSize < kMinBoardSize \/ boardSize > kMaxBoardSize

\* the discount test of TwixTGame::TwixTGame
DiscountRejected(discount) ==
    discount <= kMinDiscount \/ discount > kMaxDiscount

\* TwixTGame::TwixTGame(params): SpielFatalError ends the construction;
\* withDiscount tells the version with the discount parameter from the one
\* without
TwixTGame(params) ==
    IF BoardSizeRejected(params.boardSize)
    THEN [params EXCEPT !.phase = "fatal"]
    ELSE IF params.withDiscount /\ DiscountRejected(params.discount)
    THEN [params EXCEPT !.phase = "fatal"]
    ELSE [params EXCEPT !.phase = "constructed"]

\* the game of board size n with the default discount
DefaultGame(n) ==
    [ phase        |-> "constructed",
      boardSize    |-> n,
      discount     |-> kDefaultDiscount,
      withDiscount |-> TRUE ]

IsTerminal ==
    result_ = kRedWin \/ result_ = kBlueWin \/ result_ = kDraw

\* TwixTState::LegalActions
LegalActions ==
    IF IsTerminal THEN << >> ELSE legalActions_[currentPlayer_ + 1]

\* the codec at rest, while a game is played
CodecIdle ==
    [ phase |-> "idle" ]

\* no Clone() was called
NoClone ==
    [ live |-> FALSE ]

\* a state that shares the vectors cell_ and legalActions_ with another one
\* sees what ApplyAction wrote to them in the board b of the other one
WrittenThrough(state, b) ==
    IF state.live /\ state.shared
    THEN [state EXCEPT !.board.cell = b.cell,
                       !.board.legalActions = b.legalActions]
    ELSE state

PlayerAfterSwapKept(b, player) ==
    IF b.result # kOpen
    THEN kTerminalPlayerId
    ELSE IF b.swapped /\ b.moveCounter = 2 THEN player ELSE 1 - player

\* the SetCurrentPlayer call of DoApplyAction, b the board after ApplyAction
PlayerAfter(b, player) ==
    IF b.result = kOpen THEN 1 - player ELSE kTerminalPlayerId

\* TwixTState::DoApplyAction(action), for an action of LegalActions()
DoApplyAction(action) ==
    /\ ~IsTerminal
    /\ \E i \in 1 .. Len(LegalActions) : LegalActions[i] = action
    /\ \E b \in { ApplyAction(Board, currentPlayer_, action) } :
           /\ cell_' = b.cell
           /\ moveCounter_' = b.moveCounter
           /\ swapped_' = b.swapped
           /\ moveOne_' = b.moveOne
           /\ result_' = b.result
           /\ legalActions_' = b.legalActions
           /\ currentPlayer_' = PlayerAfter(b, currentPlayer_)
           /\ clone_' = WrittenThrough(clone_, b)
    /\ lastAction' = action
    /\ UNCHANGED << size_, unsetColor, strayLink, blockerSize, codec, game_ >>

\* the set of the entries of LegalActions()
LegalSet ==
    { LegalActions[i] : i \in 1 .. Len(LegalActions) }

\* the driver of full games: any legal action during the first FreeMoves
\* moves, the first entry of LegalActions() afterwards
Choices ==
    IF moveCounter_ < FreeMoves
    THEN LegalSet
    ELSE { LegalActions[i] : i \in 1 .. (IF Len(LegalActions) = 0 THEN 0 ELSE 1) }

\* the driver of local play: the legal actions on columns 1 and 2
AreaChoices ==
    { a \in LegalSet : ActionToMove(size_, currentPlayer_, a)[1] \in {1, 2} }

\* state after TwixTState(game) for a game of board size n
InitGameWith(n, stray) ==
    /\ size_ = n
    /\ unsetColor \in Colors
    /\ strayLink \in stray
    /\ cell_ = NewBoard(n).cell
    /\ blockerSize = n
    /\ moveCounter_ = 0
    /\ swapped_ = FALSE
    /\ moveOne_ = << 0, 0 >>
    /\ result_ = kOpen
    /\ legalActions_ = NewBoard(n).legalActions
    /\ currentPlayer_ = kRedPlayer
    /\ lastAction = -1
    /\ codec = CodecIdle
    /\ clone_ = NoClone
    /\ game_ = DefaultGame(n)

\* the static blockerMap is the one of this board: no cell outside cell_ is
\* ever read
InitGame(n) ==
    InitGameWith(n, {FALSE})

\* full games and local play are on the smallest board
Init ==
    InitGame(kMinBoardSize)

\* one move of a full game
Play ==
    \E action \in Choices : DoApplyAction(action)

Next ==
    Play

Spec ==
    Init /\ [][Next]_vars

\* one move of local play
PlayArea ==
    /\ moveCounter_ < MaxAreaMoves
    /\ \E action \in AreaChoices : DoApplyAction(action)

NextArea ==
    PlayArea

SpecArea ==
    Init /\ [][NextArea]_vars

\* TwixTState::Clone: new TwixTState(*this).  The implicit copy constructors
\* copy the Board member by member; the copy of a std::vector owns new
\* elements, so the copy shares no vector with the original.  `at` is the
\* move counter at the time of the copy.
CloneAliased ==
    [ live          |-> TRUE,
      shared        |-> TRUE,
      at            |-> moveCounter_,
      board         |-> Board,
      currentPlayer |-> currentPlayer_ ]

CloneState ==
    [ live          |-> TRUE,
      shared        |-> FALSE,
      at            |-> moveCounter_,
      board         |-> Board,
      currentPlayer |-> currentPlayer_ ]

\* Clone() on the state
Clone ==
    /\ ~clone_.live
    /\ clone_' = CloneState
    /\ UNCHANGED << size_, cell_, unsetColor, strayLink, blockerSize,
                    moveCounter_,
                    swapped_, moveOne_, result_, legalActions_,
                    currentPlayer_, lastAction, codec, game_ >>

\* the actions of the vector la of player that put a peg on columns and rows
\* 1 and 2
NearChoices(n, la, player) ==
    { la[player + 1][i] : i \in
        { j \in 1 .. Len(la[player + 1]) :
            /\ ActionToMove(n, player, la[player + 1][j])[1] \in {1, 2}
            /\ ActionToMove(n, player, la[player + 1][j])[2] \in {1, 2} } }

\* DoApplyAction(action) on the clone
DoApplyActionOnClone(action) ==
    /\ clone_.live
    /\ clone_.board.result = kOpen
    /\ \E b \in { ApplyAction(clone_.board, clone_.currentPlayer, action) } :
           /\ clone_' = [clone_ EXCEPT
                             !.board = b,
                             !.currentPlayer =
                                 PlayerAfter(b, clone_.currentPlayer)]
           /\ IF clone_.shared
              THEN cell_' = b.cell /\ legalActions_' = b.legalActions
              ELSE UNCHANGED << cell_, legalActions_ >>
    /\ UNCHANGED << size_, unsetColor, strayLink, blockerSize, moveCounter_,
                    swapped_,
                    moveOne_, result_, currentPlayer_, lastAction, codec,
                    game_ >>

\* a move on the original, a few moves deep
PlayOriginal ==
    /\ moveCounter_ < MaxCloneMoves
    /\ ~IsTerminal
    /\ \E action \in NearChoices(size_, legalActions_, currentPlayer_) :
           DoApplyAction(action)

\* a move on the clone, a few moves deep
PlayClone ==
    /\ clone_.live
    /\ clone_.board.moveCounter < MaxCloneMoves
    /\ \E action \in NearChoices(size_, clone_.board.legalActions,
                                  IF clone_.board.result = kOpen
                                  THEN clone_.currentPlayer ELSE kRedPlayer) :
           DoApplyActionOnClone(action)

NextClone ==
    \/ PlayOriginal
    \/ Clone
    \/ PlayClone

SpecClone ==
    Init /\ [][NextClone]_vars

\* Board::Board(m, ...) for another Board instance: InitializeCells(true)
\* clears the static blockerMap and fills it for size m
ConstructOther(m) ==
    /\ blockerSize' = m
    /\ UNCHANGED << size_, cell_, unsetColor, strayLink, moveCounter_, swapped_,
                    moveOne_,
                    result_, legalActions_, currentPlayer_, lastAction, codec,
                    clone_, game_ >>

InitOther ==
    \E n \in kMinBoardSize .. MaxOtherSize : InitGameWith(n, BOOLEAN)

\* another Board of some size is constructed while the game goes on
NewOther ==
    \E m \in kMinBoardSize .. MaxOtherSize :
        m # blockerSize /\ ConstructOther(m)

NextOther ==
    \/ PlayOriginal
    \/ NewOther

SpecOther ==
    InitOther /\ [][NextOther]_vars

\* the driver of long games: any first move; then the first or the last entry
\* of LegalActions(), and as second move also the action that decodes to the
\* first move's position
EndChoices ==
    IF moveCounter_ = 0
    THEN LegalSet
    ELSE { LegalActions[i] : i \in { 1, Len(LegalActions) } \cap
                                     (1 .. Len(LegalActions)) }
             \cup { a \in LegalSet :
                        /\ moveCounter_ = 1
                        /\ ActionToMove(size_, currentPlayer_, a) = moveOne_ }

PlayLong ==
    \E action \in EndChoices : DoApplyAction(action)

NextLong ==
    PlayLong

\* weak fairness of PlayLong, its enabling condition written out: a game
\* goes on while LegalActions() offers an action
PlayedOn ==
    []<>(EndChoices = {}) \/ []<><< NextLong >>_vars

SpecLong ==
    Init /\ [][NextLong]_vars /\ PlayedOn

\* the parameters a game is asked for: board sizes around the allowed range,
\* discounts around [0, 1], in both versions of the constructor
GameParameters ==
    [ phase        : { "requested" },
      boardSize    : (kMinBoardSize - ParamSlack) .. (kMaxBoardSize + ParamSlack),
      discount     : { -50, 0, 1, 50, 100, 101, 150 },
      withDiscount : BOOLEAN ]

\* before LoadGame: no TwixTGame, no TwixTState, an empty static blockerMap
InitParams ==
    /\ game_ \in GameParameters
    /\ size_ = 0
    /\ unsetColor \in Colors
    /\ strayLink = FALSE
    /\ cell_ = << >>
    /\ blockerSize = 0
    /\ moveCounter_ = 0
    /\ swapped_ = FALSE
    /\ moveOne_ = << 0, 0 >>
    /\ result_ = kOpen
    /\ legalActions_ = << << >>, << >> >>
    /\ currentPlayer_ = kRedPlayer
    /\ lastAction = -1
    /\ codec = CodecIdle
    /\ clone_ = NoClone

\* Factory(params): new TwixTGame(params)
ConstructGame ==
    /\ game_.phase = "requested"
    /\ game_' = TwixTGame(game_)
    /\ UNCHANGED << size_, cell_, unsetColor, strayLink, blockerSize,
                    moveCounter_, swapped_, moveOne_, result_, legalActions_,
                    currentPlayer_, lastAction, codec, clone_ >>

\* TwixTGame::NewInitialState: new TwixTState(game), whose constructor builds
\* the Board of the game's board size
NewInitialState ==
    /\ game_.phase = "constructed"
    /\ size_ = 0
    /\ \E b \in { NewBoard(game_.boardSize) } :
           /\ size_' = b.size
           /\ cell_' = b.cell
           /\ moveCounter_' = b.moveCounter
           /\ swapped_' = b.swapped
           /\ moveOne_' = b.moveOne
           /\ result_' = b.result
           /\ legalActions_' = b.legalActions
    /\ blockerSize' = game_.boardSize
    /\ currentPlayer_' = kRedPlayer
    /\ UNCHANGED << unsetColor, strayLink, lastAction, codec, clone_, game_ >>

NextGame ==
    \/ ConstructGame
    \/ NewInitialState

SpecGame ==
    InitParams /\ [][NextGame]_vars

InitSwap ==
    \E n \in kMinBoardSize .. MaxSwapSize : InitGame(n)

\* one of the first two moves of a game
PlayOpening ==
    /\ moveCounter_ < 2
    /\ \E action \in LegalSet : DoApplyAction(action)

NextSwap ==
    PlayOpening

SpecSwap ==
    InitSwap /\ [][NextSwap]_vars

----------------------------------------------------------------------------
(* The action codec on its own: Board::ActionToMove and Board::MoveToAction *)
(* applied to every action and every move of a player's action space, for  *)
(* every supported board size                                              *)

\* the positions of a player's action space: Red plays columns 1 .. n-2,
\* Blue plays rows 1 .. n-2
Domain(n, player) ==
    IF player = kRedPlayer
    THEN (1 .. (n - 2)) \X (0 .. (n - 1))
    ELSE (0 .. (n - 1)) \X (1 .. (n - 2))

InitCodec ==
    /\ size_ = kMinBoardSize
    /\ unsetColor = kEmpty
    /\ strayLink = FALSE
    /\ cell_ = NewBoard(kMinBoardSize).cell
    /\ blockerSize = kMinBoardSize
    /\ moveCounter_ = 0
    /\ swapped_ = FALSE
    /\ moveOne_ = << 0, 0 >>
    /\ result_ = kOpen
    /\ legalActions_ = NewBoard(kMinBoardSize).legalActions
    /\ currentPlayer_ = kRedPlayer
    /\ lastAction = -1
    /\ clone_ = NoClone
    /\ game_ = DefaultGame(kMinBoardSize)
    /\ \E n \in kMinBoardSize .. kMaxBoardSize, player \in Players :
          \/ \E a \in 0 .. (NumDistinctActions(n) - 1) :
                codec = [ phase |-> "action", n |-> n, player |-> player,
                          action |-> a ]
          \/ \E m \in Domain(n, player) :
                codec = [ phase |-> "move", n |-> n, player |-> player,
                          move |-> m ]

\* ActionToMove(player, action)
Decode ==
    /\ codec.phase = "action"
    /\ codec' = [ phase |-> "decoded", n |-> codec.n, player |-> codec.player,
                  action |-> codec.action,
                  move |-> ActionToMove(codec.n, codec.player, codec.action) ]
    /\ UNCHANGED boardVars

\* MoveToAction(player, ActionToMove(player, action))
EncodeBack ==
    /\ codec.phase = "decoded"
    /\ codec' = [ phase |-> "reencoded", n |-> codec.n, player |-> codec.player,
                  action |-> codec.action, move |-> codec.move,
                  back |-> MoveToAction(codec.n, codec.player, codec.move) ]
    /\ UNCHANGED boardVars

\* MoveToAction(player, move)
Encode ==
    /\ codec.phase = "move"
    /\ codec' = [ phase |-> "encoded", n |-> codec.n, player |-> codec.player,
                  move |-> codec.move,
                  action |-> MoveToAction(codec.n, codec.player, codec.move) ]
    /\ UNCHANGED boardVars

\* ActionToMove(player, MoveToAction(player, move))
DecodeBack ==
    /\ codec.phase = "encoded"
    /\ codec' = [ phase |-> "redecoded", n |-> codec.n, player |-> codec.player,
                  move |-> codec.move, action |-> codec.action,
                  back |-> ActionToMove(codec.n, codec.player, codec.action) ]
    /\ UNCHANGED boardVars

NextCodec ==
    \/ Decode
    \/ EncodeBack
    \/ Encode
    \/ DecodeBack

SpecCodec ==
    InitCodec /\ [][NextCodec]_vars

----------------------------------------------------------------------------
(* Observation tensor: the writes of TwixTState::ObservationTensor into the *)
(* view of shape {kNumPlanes, n, n - 2}                                     *)

kNumPlanes ==
    6

kOpponentPlaneOffset ==
    3

kCurPlayerPlaneOffset ==
    0

\* Cell::HasLinks
HasLinks(cell) ==
    cell.links > 0

\* Cell::HasBlockedNeighbors
HasBlockedNeighbors(cell) ==
    cell.blockedNeighbors > 0

\* Board::GetTensorMove(move, turn) for turn 0, 90 or 180
GetTensorMove(n, move, turn) ==
    IF turn = 0
    THEN << move[1] - 1, move[2] >>
    ELSE IF turn = 90
    THEN << n - move[2] - 2, move[1] >>
    ELSE << n - move[1] - 2, n - move[2] - 1 >>

\* the turn ObservationTensor(player) passes for a cell of the given color
TensorTurn(player, color) ==
    IF player = kRedPlayer
    THEN (IF color = kRedColor THEN 0 ELSE 90)
    ELSE (IF color = kBlueColor THEN 90 ELSE 180)

\* the plane offset ObservationTensor(player) passes for it
TensorOffset(player, color) ==
    IF color = player THEN kCurPlayerPlaneOffset ELSE kOpponentPlaneOffset

\* SetPegAndLinksOnTensor: the indices {plane, second, first} it writes 1.0 to
SetPegAndLinksOnTensor(cell, offset, turn, move) ==
    { << (IF HasLinks(cell) THEN 1 ELSE 0) + offset,
         GetTensorMove(size_, move, turn)[2],
         GetTensorMove(size_, move, turn)[1] >> }
        \cup { << 2 + offset,
                  GetTensorMove(size_, move, turn)[2],
                  GetTensorMove(size_, move, turn)[1] >> :
                   i \in { j \in { 1 } : HasBlockedNeighbors(cell) } }

\* the cells ObservationTensor treats as pegs: those whose GetColor() is
\* kRedColor or kBlueColor
TensorCells ==
    { move \in Positions(size_) :
        GetColor(cell_[move]) \in { kRedColor, kBlueColor } }

\* TwixTState::ObservationTensor(player): every index it writes 1.0 to
ObservationTensor(player) ==
    UNION { SetPegAndLinksOnTensor(
                cell_[move],
                TensorOffset(player, GetColor(cell_[move])),
                TensorTurn(player, GetColor(cell_[move])),
                move) : move \in TensorCells }

----------------------------------------------------------------------------
(* Move labels: TwixTState::ActionToString.  A std::string is modelled as   *)
(* the sequence of its characters.                                          *)

\* the characters 'a' + 0, 'a' + 1, ...
Alphabet ==
    << "a", "b", "c", "d", "e", "f", "g", "h", "i", "j", "k", "l", "m",
       "n", "o", "p", "q", "r", "s", "t", "u", "v", "w", "x", "y", "z" >>

Digits ==
    << "0", "1", "2", "3", "4", "5", "6", "7", "8", "9" >>

RECURSIVE to_string(_)
\* std::to_string(k) for k >= 0
to_string(k) ==
    IF k < 10
    THEN << Digits[k + 1] >>
    ELSE to_string(k \div 10) \o << Digits[(k % 10) + 1] >>

\* the label with the row number counted from the bottom
ActionToStringFromBottom(n, player, action) ==
    LET move == ActionToMove(n, player, action)
    IN  << IF player = kRedPlayer THEN "x" ELSE "o" >>
            \o << Alphabet[move[1] + 1] >>
            \o to_string(move[2] + 1)

\* TwixTState::ActionToString(player, action) on a board of size n
ActionToString(n, player, action) ==
    LET move == ActionToMove(n, player, action)
    IN  << IF player = kRedPlayer THEN "x" ELSE "o" >>
            \o << Alphabet[move[1] + 1] >>
            \o to_string(n - move[2])

InitLabel ==
    /\ size_ = kMinBoardSize
    /\ unsetColor = kEmpty
    /\ strayLink = FALSE
    /\ cell_ = NewBoard(kMinBoardSize).cell
    /\ blockerSize = kMinBoardSize
    /\ moveCounter_ = 0
    /\ swapped_ = FALSE
    /\ moveOne_ = << 0, 0 >>
    /\ result_ = kOpen
    /\ legalActions_ = NewBoard(kMinBoardSize).legalActions
    /\ currentPlayer_ = kRedPlayer
    /\ lastAction = -1
    /\ clone_ = NoClone
    /\ game_ = DefaultGame(kMinBoardSize)
    /\ \E n \in kMinBoardSize .. kMaxBoardSize, player \in Players :
          \E a \in 0 .. (NumDistinctActions(n) - 1) :
              codec = [ phase |-> "action", n |-> n, player |-> player,
                        action |-> a ]

\* ActionToString(player, action)
Label ==
    /\ codec.phase = "action"
    /\ codec' = [ phase |-> "labelled", n |-> codec.n, player |-> codec.player,
                  action |-> codec.action,
                  move |-> ActionToMove(codec.n, codec.player, codec.action),
                  label |-> ActionToString(codec.n, codec.player,
                                           codec.action) ]
    /\ UNCHANGED boardVars

NextLabel ==
    Label

SpecLabel ==
    InitLabel /\ [][NextLabel]_vars

----------------------------------------------------------------------------
(* The blocker map on its own: what GetBlockers returns for each link of a  *)
(* freshly constructed Board                                                *)

InitBlockers ==
    /\ size_ = kMinBoardSize
    /\ unsetColor = kEmpty
    /\ strayLink = FALSE
    /\ cell_ = NewBoard(kMinBoardSize).cell
    /\ blockerSize = kMinBoardSize
    /\ moveCounter_ = 0
    /\ swapped_ = FALSE
    /\ moveOne_ = << 0, 0 >>
    /\ result_ = kOpen
    /\ legalActions_ = NewBoard(kMinBoardSize).legalActions
    /\ currentPlayer_ = kRedPlayer
    /\ lastAction = -1
    /\ clone_ = NoClone
    /\ game_ = DefaultGame(kMinBoardSize)
    /\ \E n \in kMinBoardSize .. MaxBlockerSize :
          \E link \in Positions(n) \X Compass :
              codec = [ phase |-> "link", n |-> n, link |-> link ]

\* GetBlockers(link) on a Board of size n, right after its construction
LookUp ==
    /\ codec.phase = "link"
    /\ codec' = [ phase |-> "blockers", n |-> codec.n, link |-> codec.link,
                  blockers |-> BlockerMapOf(codec.n, codec.link) ]
    /\ UNCHANGED boardVars

NextBlockers ==
    LookUp

SpecBlockers ==
    InitBlockers /\ [][NextBlockers]_vars

----------------------------------------------------------------------------
(* Properties *)

\* the link {move, dir} is set in the cell at move
LinkPresent(link) ==
    HasLink(cell_[link[1]], link[2])

Links ==
    Positions(size_) \X Compass

\* the cell at move holds a peg put there by a move
HasPeg(move) ==
    cell_[move].color = kRedColor \/ cell_[move].color = kBlueColor

\* C1: no crossing links -- for every link that is present, no link
\* registered as one of its blockers is present
C1_NoCrossingLinks ==
    \A l \in Links :
        LinkPresent(l) => \A bl \in GetBlockers(l) : ~LinkPresent(bl)

\* a link with registered blockers is present
C1_Witness ==
    \E l \in Links : LinkPresent(l) /\ GetBlockers(l) # {}

\* C5: codec round trip -- encoding the decoded action gives the action back,
\* and decoding the encoded move gives the move back, for every board size
\* 5..24, each player, every action and every move of the player's domain
C5_CodecRoundTrip ==
    /\ codec.phase = "reencoded" => codec.back = codec.action
    /\ codec.phase = "redecoded" => codec.back = codec.move

\* Blue's last move of the largest board went through encode and decode
C5_Witness ==
    /\ codec.phase = "redecoded"
    /\ codec.n = kMaxBoardSize
    /\ codec.player = kBluePlayer
    /\ codec.move = << kMaxBoardSize - 1, 1 >>
    /\ codec.action = NumDistinctActions(kMaxBoardSize) - 1

\* C6: action space -- every action index 0 .. n*(n-2)-1 decodes to a position
\* that is on the board, is no corner, is not on the opposing player's border
\* lines, and is the decoding of no other action index
C6_ActionSpace ==
    codec.phase = "decoded" =>
        /\ ~MoveIsOffBoard(codec.n, codec.move)
        /\ codec.player = kRedPlayer =>
               codec.move[1] # 0 /\ codec.move[1] # codec.n - 1
        /\ codec.player = kBluePlayer =>
               codec.move[2] # 0 /\ codec.move[2] # codec.n - 1
        /\ \A other \in 0 .. (NumDistinctActions(codec.n) - 1) :
               other # codec.action =>
                   ActionToMove(codec.n, codec.player, other) # codec.move

\* Red's last action of the largest board was decoded
C6_Witness ==
    /\ codec.phase = "decoded"
    /\ codec.n = kMaxBoardSize
    /\ codec.player = kRedPlayer
    /\ codec.action = NumDistinctActions(kMaxBoardSize) - 1
    /\ codec.move = << kMaxBoardSize - 2, kMaxBoardSize - 1 >>

\* the cell at move holds a peg of player
PegOf(player, move) ==
    cell_[move].color = player

\* move lies on the border line of player at the given border end: Red's are
\* row 0 and row n-1, Blue's are column 0 and column n-1
OnBorderLine(player, border, move) ==
    LET line == IF border = kStart THEN 0 ELSE size_ - 1
    IN  IF player = kRedPlayer THEN move[2] = line ELSE move[1] = line

\* a link is set between the pegs at p and q, both of player
LinkedPegs(player, p, q) ==
    /\ PegOf(player, p)
    /\ PegOf(player, q)
    /\ \E dir \in Compass :
          /\ q = MovePlus(p, Offsets(dir))
          /\ LinkPresent(<< p, dir >>) \/ LinkPresent(<< q, OppDir(dir) >>)

RECURSIVE ChainClosure(_, _)
\* the pegs of player joined to a peg of the set by a chain of links
ChainClosure(player, set) ==
    LET more == { q \in Positions(size_) :
                    q \notin set /\ \E p \in set : LinkedPegs(player, p, q) }
    IN  IF more = {} THEN set ELSE ChainClosure(player, set \cup more)

\* a chain of links through pegs of player joins its two border lines
HasChain(player) ==
    \E q \in ChainClosure(player,
                 { p \in Positions(size_) :
                     PegOf(player, p) /\ OnBorderLine(player, kStart, p) }) :
        OnBorderLine(player, kEnd, q)

\* C2: win detection is exact -- the result is the win of a player exactly
\* when a chain of links through that player's pegs joins the player's two
\* border lines
C2_WinExact ==
    /\ result_ = kRedWin <=> HasChain(kRedPlayer)
    /\ result_ = kBlueWin <=> HasChain(kBluePlayer)

\* the position the swap puts the peg on, for a first move at move
Rotated(move) ==
    << size_ - 1 - move[2], move[1] >>

\* the initial legal-action vector without the actions that decode to move
FullWithout(player, move) ==
    SelectSeq(Iota(NumDistinctActions(size_)),
              LAMBDA a : ActionToMove(size_, player, a) # move)

\* the second move of the game was an action that decodes to the first move's
\* position
SecondMoveOnFirst ==
    /\ moveCounter_ = 2
    /\ ActionToMove(size_, kBluePlayer, lastAction) = moveOne_

\* C3 as claimed: after a second action that decodes to the first move's
\* position, that position is Empty, the only peg is a Blue peg on the rotated
\* position, the game is swapped, and each legal-action set is the full set
\* minus the action of the rotated position
C3_SwapEffectClaimed ==
    SecondMoveOnFirst =>
        /\ cell_[moveOne_].color = kEmpty
        /\ \A p \in Positions(size_) : HasPeg(p) <=> p = Rotated(moveOne_)
        /\ cell_[Rotated(moveOne_)].color = kBlueColor
        /\ swapped_
        /\ \A player \in Players :
               legalActions_[player + 1] = FullWithout(player, Rotated(moveOne_))

\* C3, amended: as claimed, but the first move's position is Empty only when
\* it is not its own image under the rotation (the centre of an odd board),
\* where it holds the Blue peg
C3_SwapEffect ==
    SecondMoveOnFirst =>
        /\ moveOne_ # Rotated(moveOne_) => cell_[moveOne_].color = kEmpty
        /\ \A p \in Positions(size_) : HasPeg(p) <=> p = Rotated(moveOne_)
        /\ cell_[Rotated(moveOne_)].color = kBlueColor
        /\ swapped_
        /\ \A player \in Players :
               legalActions_[player + 1] = FullWithout(player, Rotated(moveOne_))

\* a swap of a first move whose rotated position both players can play
C3_Witness ==
    /\ SecondMoveOnFirst
    /\ swapped_
    /\ size_ = 6
    /\ moveOne_ = << 1, 2 >>
    /\ cell_[<< 3, 1 >>].color = kBlueColor
    /\ Len(legalActions_[kRedPlayer + 1]) = NumDistinctActions(size_) - 1

\* C4 as claimed: when the second player plays the action index Red played,
\* the game is swapped, the peg stands on the rotated position and the first
\* move's position is Empty
C4_SwapTriggerClaimed ==
    (moveCounter_ = 2 /\ lastAction = MoveToAction(size_, kRedPlayer, moveOne_)) =>
        /\ swapped_
        /\ cell_[Rotated(moveOne_)].color = kBlueColor
        /\ cell_[moveOne_].color = kEmpty

\* C4, amended: the swap is triggered when the second player's action decodes
\* to the first move's position (Blue's index of that position); then the
\* game is swapped, a Blue peg stands on the rotated position and the first
\* move's position, unless it is the rotated position, is Empty.  On size 8,
\* Red on (2,3) followed by Blue's action 26 leaves (2,3) Empty and a Blue peg
\* on (4,2)
C4_SwapTrigger ==
    /\ SecondMoveOnFirst =>
          /\ swapped_
          /\ cell_[Rotated(moveOne_)].color = kBlueColor
          /\ moveOne_ # Rotated(moveOne_) => cell_[moveOne_].color = kEmpty
    /\ (size_ = 8 /\ moveCounter_ = 2 /\ moveOne_ = << 2, 3 >> /\ lastAction = 26) =>
          /\ swapped_
          /\ cell_[<< 2, 3 >>].color = kEmpty
          /\ cell_[<< 4, 2 >>].color = kBlueColor

\* the size-8 scenario was played
C4_Witness ==
    /\ size_ = 8
    /\ moveCounter_ = 2
    /\ moveOne_ = << 2, 3 >>
    /\ lastAction = 26
    /\ swapped_

\* C7 as claimed: no legal action of either player decodes to a position that
\* holds a peg or is off the board
C7_LegalFreeClaimed ==
    \A player \in Players :
        \A i \in 1 .. Len(legalActions_[player + 1]) :
            LET move == ActionToMove(size_, player, legalActions_[player + 1][i])
            IN  ~MoveIsOffBoard(size_, move) /\ ~HasPeg(move)

\* C7, amended: no legal action decodes to an off-board position, and none to
\* a position that holds a peg, except the first move's position while the
\* move counter is 1 (it stays legal for the swap)
C7_LegalFree ==
    \A player \in Players :
        \A i \in 1 .. Len(legalActions_[player + 1]) :
            LET move == ActionToMove(size_, player, legalActions_[player + 1][i])
            IN  /\ ~MoveIsOffBoard(size_, move)
                /\ HasPeg(move) => (moveCounter_ = 1 /\ move = moveOne_)

\* pegs of both players stand on positions both could play, after the opening
C7_Witness ==
    /\ moveCounter_ >= 4
    /\ \E p, q \in Domain(size_, kRedPlayer) \cap Domain(size_, kBluePlayer) :
          PegOf(kRedPlayer, p) /\ PegOf(kBluePlayer, q)

\* the number of entries the step takes from the legal actions of player
Shrink(player) ==
    Len(legalActions_[player + 1]) - Len(legalActions_'[player + 1])

\* 1 if the position is in the action space of player, else 0
InSpace(player, move) ==
    IF move \in Domain(size_, player) THEN 1 ELSE 0

\* the step is an ApplyAction that is not the swap
NonSwapMove ==
    /\ moveCounter_' = moveCounter_ + 1
    /\ ~(swapped_' /\ ~swapped_)

\* the position a non-swap step puts its peg on
Placed ==
    ActionToMove(size_, currentPlayer_, lastAction')

\* C8 as claimed: every non-swap move takes exactly one entry from the legal
\* actions of each player whose action space holds the new peg's position and
\* none from the other's, except the first move, which takes none
C8_LegalShrinksClaimed ==
    [][NonSwapMove =>
          \A player \in Players :
              Shrink(player) =
                  IF moveCounter_ = 0 THEN 0 ELSE InSpace(player, Placed)]_vars

\* C8, amended: as claimed, but a second move that is not the swap also takes
\* the first move's position from each player whose action space holds it
C8_LegalShrinks ==
    [][NonSwapMove =>
          \A player \in Players :
              Shrink(player) =
                  IF moveCounter_ = 0 THEN 0
                  ELSE IF moveCounter_ = 1
                  THEN InSpace(player, Placed) + InSpace(player, moveOne_)
                  ELSE InSpace(player, Placed)]_vars

\* moves after the opening took entries from one player's set only
C8_Witness ==
    /\ moveCounter_ >= 4
    /\ ~swapped_
    /\ Len(legalActions_[kRedPlayer + 1]) # Len(legalActions_[kBluePlayer + 1])

\* the player who made the latest move, and the position of its peg
LastMover ==
    (moveCounter_ - 1) % 2

LastPlaced ==
    IF moveCounter_ = 2 /\ swapped_
    THEN Rotated(moveOne_)
    ELSE ActionToMove(size_, LastMover, lastAction)

\* C9: draw detection -- after a move that gives no win, the result is Draw
\* exactly when the move counter is at least n-1 and the player to move next
\* has no legal action, and Open otherwise; a Draw is never recorded on a move
\* whose peg is linked to both of the mover's borders
C9_DrawDetection ==
    moveCounter_ >= 1 =>
        /\ (result_ # kRedWin /\ result_ # kBlueWin) =>
               /\ result_ = kDraw <=>
                      /\ moveCounter_ >= size_ - 1
                      /\ Len(legalActions_[(1 - LastMover) + 1]) = 0
               /\ result_ # kDraw => result_ = kOpen
        /\ result_ = kDraw =>
               ~ /\ IsLinkedToBorder(cell_[LastPlaced], LastMover, kStart)
                 /\ IsLinkedToBorder(cell_[LastPlaced], LastMover, kEnd)

\* a game ended in a draw
C9_Witness ==
    /\ result_ = kDraw
    /\ currentPlayer_ = kTerminalPlayerId
    /\ Len(legalActions_[(1 - LastMover) + 1]) = 0
    /\ Len(legalActions_[LastMover + 1]) > 0

\* C11: deep-copy independence -- a move on the clone leaves the original's
\* cells, legal actions, move counter, swapped flag, first move, result and
\* current player unchanged, and a move on the original leaves the clone
\* unchanged
C11_CloneIndependent ==
    [][/\ (clone_.live /\ clone_'.live
               /\ clone_'.board.moveCounter # clone_.board.moveCounter)
           => UNCHANGED << cell_, legalActions_, moveCounter_, swapped_,
                           moveOne_, result_, currentPlayer_ >>
       /\ (clone_.live /\ moveCounter_' # moveCounter_)
           => clone_' = clone_]_vars

\* original and clone both moved on after the copy and differ
C11_Witness ==
    /\ clone_.live
    /\ clone_.board.moveCounter > clone_.at + 1
    /\ moveCounter_ > clone_.at + 1
    /\ clone_.board.cell # cell_
    /\ clone_.board.legalActions # legalActions_
    /\ clone_.board.swapped # swapped_

\* C12: blocker index immutability -- while a Board of size n lives, the
\* blockers consulted for each of its links are the ones derived from the
\* link descriptor table for size n, whatever other Boards are constructed
C12_BlockersStay ==
    \A link \in Links : GetBlockers(link) = BlockerMapOf(size_, link)

\* the reachability flags the claim gives the on-board cell at position p
BorderFlagsAt(p) ==
    { << kBluePlayer, kStart >> : i \in { 0 } \cap { p[1] } }
        \cup { << kBluePlayer, kEnd >> : i \in { size_ - 1 } \cap { p[1] } }
        \cup { << kRedPlayer, kStart >> : i \in { 0 } \cap { p[2] } }
        \cup { << kRedPlayer, kEnd >> : i \in { size_ - 1 } \cap { p[2] } }

\* C13: cell store initialization -- right after construction every stored
\* on-board cell reads Empty, every corner cell reads OffBoard and has no
\* links and no candidates, and the cells of the four border lines, and no
\* others, carry the reachability flag of their line
C13_CellsInitialized ==
    moveCounter_ = 0 =>
        \A p \in Positions(size_) :
            IF MoveIsOffBoard(size_, p)
            THEN /\ GetColor(cell_[p]) = kOffBoard
                 /\ GetLinks(cell_[p]) = 0
                 /\ cell_[p].candidates = << 0, 0 >>
                 /\ cell_[p].linkedToBorder = {}
            ELSE /\ GetColor(cell_[p]) = kEmpty
                 /\ cell_[p].linkedToBorder = BorderFlagsAt(p)

\* C14: bounded game length -- the move counter never exceeds n*n - 4 + 1,
\* every state whose move counter is n*n - 4 + 1 is terminal, and every game
\* that is played on reaches a terminal result
C14_BoundedLength ==
    /\ [](/\ moveCounter_ <= MaxGameLength(size_)
          /\ moveCounter_ = MaxGameLength(size_) => IsTerminal)
    /\ <>IsTerminal

\* a game of n*n - 4 + 1 moves: a swap, then every cell filled
C14_Witness ==
    /\ moveCounter_ = size_ * size_ - 4 + 1
    /\ swapped_
    /\ result_ = kDraw

\* C15: no stuck non-terminal state -- while the result is Open the player to
\* move has a legal action, so LegalActions() is empty exactly in the terminal
\* states
C15_NoStuck ==
    /\ result_ = kOpen => Len(legalActions_[currentPlayer_ + 1]) > 0
    /\ Len(LegalActions) = 0 <=> IsTerminal

\* late in a game the player to move is down to the last legal action
C15_Witness ==
    /\ result_ = kOpen
    /\ moveCounter_ >= size_ - 1
    /\ Len(LegalActions) = 1
    /\ Len(legalActions_[2 - currentPlayer_]) > 1

\* C16: turn order -- Red moves first; every applied action that leaves the
\* result Open hands the turn to the other player, also the swap move, so
\* that Red (player 0) is to move on even move counts and Blue on odd ones;
\* once the result is RedWin, BlueWin or Draw the current player is the
\* terminal player id and stays so
C16_TurnOrder ==
    /\ [](/\ moveCounter_ = 0 => currentPlayer_ = kRedPlayer
          /\ result_ = kOpen => currentPlayer_ = moveCounter_ % 2
          /\ IsTerminal => currentPlayer_ = kTerminalPlayerId)
    /\ [][/\ result_' = kOpen => currentPlayer_' = 1 - currentPlayer_
          /\ IsTerminal => currentPlayer_' = kTerminalPlayerId]_vars

\* after the swap move it is Red's turn
C16_Witness ==
    /\ swapped_
    /\ moveCounter_ = 2
    /\ result_ = kOpen
    /\ currentPlayer_ = kRedPlayer

\* C17: construction validation -- a game asked for with board_size below 5
\* or above 24, or (in the version with a discount) with discount <= 0 or
\* > 1, ends in a fatal error and no Board state ever exists; every
\* board_size in 5..24 with a valid discount constructs
C17_ConstructionValidated ==
    /\ game_.phase # "requested" =>
           (game_.phase = "fatal" <=>
               \/ game_.boardSize < 5
               \/ game_.boardSize > 24
               \/ /\ game_.withDiscount
                  /\ game_.discount <= 0 \/ game_.discount > 100)
    /\ game_.phase # "requested" => game_.phase \in { "fatal", "constructed" }
    /\ game_.phase # "constructed" => size_ = 0 /\ cell_ = << >>

\* a game one size beyond the maximum was asked for and refused
C17_Witness ==
    /\ game_.phase = "fatal"
    /\ game_.boardSize = 25
    /\ size_ = 0

RECURSIVE NumeralValue(_)
\* the number a sequence of decimal digits stands for
NumeralValue(digits) ==
    IF digits = << >>
    THEN 0
    ELSE 10 * NumeralValue(SubSeq(digits, 1, Len(digits) - 1))
             + (CHOOSE d \in 0 .. 9 : Digits[d + 1] = digits[Len(digits)])

\* the label is the color tag, the letter 'a' + x and the number n - y of
\* the decoded position (x, y)
LabelFormat ==
    /\ codec.label[1] = (IF codec.player = kRedPlayer THEN "x" ELSE "o")
    /\ codec.label[2] = Alphabet[codec.move[1] + 1]
    /\ \A i \in 3 .. Len(codec.label) :
           \E d \in 1 .. 10 : codec.label[i] = Digits[d]
    /\ Len(codec.label) > 2
    /\ codec.label[3] # "0"
    /\ NumeralValue(SubSeq(codec.label, 3, Len(codec.label)))
           = codec.n - codec.move[2]

\* on the 8x8 board, the action of player decodes to move and is labelled label
Example(player, action, move, label) ==
    (codec.n = 8 /\ codec.player = player /\ codec.action = action)
        => (codec.move = move /\ codec.label = label)

LinkEnd(link) ==
    MovePlus(link[1], Offsets(link[2]))

\* C19: links join only same-colored pegs -- whenever a cell has its link bit
\* set in direction d, the cell and its neighbour in direction d both hold a
\* peg, and the two pegs have the same color
C19_LinksSameColor ==
    \A link \in Links :
        LinkPresent(link) =>
            /\ LinkEnd(link) \in Positions(size_)
            /\ HasPeg(link[1])
            /\ HasPeg(LinkEnd(link))
            /\ cell_[link[1]].color = cell_[LinkEnd(link)].color

\* C20: automatic linking is complete -- for every two pegs of the same
\* color a knight's move apart, the link between them is present or a link
\* of its blocker set is present
C20_LinkingComplete ==
    \A link \in Links :
        (/\ LinkEnd(link) \in Positions(size_)
         /\ HasPeg(link[1])
         /\ HasPeg(LinkEnd(link))
         /\ cell_[link[1]].color = cell_[LinkEnd(link)].color)
            => \/ LinkPresent(link)
               \/ \E bl \in GetBlockers(link) : LinkPresent(bl)

\* the pegs of player on its border line at the given border end
BorderPegs(player, border) ==
    { p \in Positions(size_) :
        PegOf(player, p) /\ OnBorderLine(player, border, p) }

\* C21: reachability closure -- while the result is Open, the two cells of
\* every link carry the same reachable-from-border flags, and a peg carries
\* its owner's flag for a border end exactly when it lies on that border line
\* or is joined by links to a peg of its owner that does
C21_ReachabilityClosed ==
    result_ = kOpen =>
        /\ \A link \in Links :
               (LinkPresent(link) /\ LinkEnd(link) \in Positions(size_)) =>
                   cell_[link[1]].linkedToBorder
                       = cell_[LinkEnd(link)].linkedToBorder
        /\ \A player \in Players, border \in Borders :
               \A p \in Positions(size_) :
                   PegOf(player, p) =>
                       (IsLinkedToBorder(cell_[p], player, border) <=>
                           p \in ChainClosure(player,
                                              BorderPegs(player, border)))

\* C22: link symmetry -- the cell at p has its link bit set in direction d
\* exactly when the cell at p + offset(d) has its link bit set in direction
\* (d + 4) mod 8
C22_LinkSymmetry ==
    \A link \in Links :
        LinkPresent(link) <=>
            /\ LinkEnd(link) \in Positions(size_)
            /\ LinkPresent(<< LinkEnd(link), (link[2] + 4) % 8 >>)

\* a peg with links in two directions, each with its bit at the other end
C22_Witness ==
    \E p \in Positions(size_) :
        \E d, e \in Compass :
            /\ d # e
            /\ LinkPresent(<< p, d >>)
            /\ LinkPresent(<< p, e >>)
            /\ LinkPresent(<< LinkEnd(<< p, d >>), (d + 4) % 8 >>)
            /\ LinkPresent(<< LinkEnd(<< p, e >>), (e + 4) % 8 >>)

\* the other orientation of the physical link (p, d)
Reverse(link) ==
    << MovePlus(link[1], Offsets(link[2])), (link[2] + 4) % 8 >>

\* both ends of the link are positions of the board of size n, corners
\* excluded
OnBoard(n, link) ==
    /\ ~MoveIsOffBoard(n, link[1])
    /\ ~MoveIsOffBoard(n, Reverse(link)[1])

\* C23: blocker index symmetry -- a link that blocks L is blocked by L, the
\* two orientations of a physical link have the same blocker set, and every
\* registered blocker has both endpoints on the board
C23_BlockerSymmetry ==
    codec.phase = "blockers" =>
        /\ \A bl \in codec.blockers :
               /\ OnBoard(codec.n, bl)
               /\ codec.link \in BlockerMapOf(codec.n, bl)
        /\ OnBoard(codec.n, codec.link) =>
               codec.blockers = BlockerMapOf(codec.n, Reverse(codec.link))

\* a link in the middle of the board with its full set of crossing links
C23_Witness ==
    /\ codec.phase = "blockers"
    /\ codec.n = 7
    /\ codec.link = << << 3, 3 >>, kNNE >>
    /\ Cardinality(codec.blockers) = 18

\* one of the cells p, q lies on Red's border segment and the other on Blue's
BorderMix(p, q) ==
    \/ MoveIsOnBorder(size_, kRedPlayer, p)
           /\ MoveIsOnBorder(size_, kBluePlayer, q)
    \/ MoveIsOnBorder(size_, kBluePlayer, p)
           /\ MoveIsOnBorder(size_, kRedPlayer, q)

\* C24: candidate initialization -- right after construction, the stored
\* cell of every on-board position p has the candidate bit of direction d
\* set, for both players alike, exactly when p + offset(d) is on the board
\* and the two cells are not one on Red's and one on Blue's border segment
C24_CandidatesInitialized ==
    moveCounter_ = 0 =>
        \A link \in Links :
            ~MoveIsOffBoard(size_, link[1]) =>
                /\ GetCandidates(cell_[link[1]], kRedPlayer)
                       = GetCandidates(cell_[link[1]], kBluePlayer)
                /\ IsCandidate(cell_[link[1]], kRedPlayer, Pow2(link[2]))
                       <=> /\ ~MoveIsOffBoard(size_, LinkEnd(link))
                           /\ ~BorderMix(link[1], LinkEnd(link))

\* the position the second action of the game decodes to
SecondDecoded ==
    ActionToMove(size_, kBluePlayer, lastAction)

\* C25: non-swap second move -- after a second move that decodes to another
\* position than the first move's, the swapped flag is false, Red's first peg
\* and Blue's second peg are both on the board, and no action of either
\* player's legal-action set decodes to one of the two positions
C25_NonSwapSecond ==
    (moveCounter_ = 2 /\ SecondDecoded # moveOne_) =>
        /\ ~swapped_
        /\ cell_[moveOne_].color = kRedColor
        /\ cell_[SecondDecoded].color = kBlueColor
        /\ \A player \in Players :
               \A i \in 1 .. Len(legalActions_[player + 1]) :
                   ActionToMove(size_, player, legalActions_[player + 1][i])
                       \notin { moveOne_, SecondDecoded }

\* a second move elsewhere, after a first move both players could have played
C25_Witness ==
    /\ moveCounter_ = 2
    /\ SecondDecoded # moveOne_
    /\ moveOne_ \in Domain(size_, kBluePlayer)
    /\ SecondDecoded \in Domain(size_, kRedPlayer)
    /\ ~swapped_

\* C26: no early result -- while fewer than n-1 moves have been played the
\* result is Open, and the draw test that UpdateResult skips there would not
\* have fired: the player to move next has a legal action
C26_NoEarlyResult ==
    moveCounter_ < size_ - 1 =>
        /\ result_ = kOpen
        /\ Len(legalActions_[(moveCounter_ % 2) + 1]) > 0

\* the last state below the threshold, in a game with a swap
C26_Witness ==
    /\ moveCounter_ = size_ - 2
    /\ swapped_
    /\ result_ = kOpen

\* the two ends of the link hold pegs of one color
SameColoredEnds(link) ==
    /\ LinkEnd(link) \in Positions(size_)
    /\ HasPeg(link[1])
    /\ HasPeg(LinkEnd(link))
    /\ cell_[link[1]].color = cell_[LinkEnd(link)].color

\* a link of the blocker set of the link is present
Crossed(link) ==
    \E bl \in GetBlockers(link) : LinkPresent(bl)

\* the blocked-neighbor bit of the link's direction is set in its cell
BlockedNoted(link) ==
    HasBit(cell_[link[1]].blockedNeighbors, link[2])

\* C27: blocked neighbors -- two pegs of one color a knight's move apart
\* with a link of the blocker set present between them are not linked and
\* have the blockage recorded in the blocked-neighbor masks of both cells, and
\* a blocked-neighbor bit is set only for such a pair
C27_BlockedNeighbors ==
    \A link \in Links :
        /\ (SameColoredEnds(link) /\ Crossed(link)) =>
               /\ ~LinkPresent(link)
               /\ BlockedNoted(link)
               /\ BlockedNoted(Reverse(link))
        /\ BlockedNoted(link) => (SameColoredEnds(link) /\ Crossed(link))

\* the action is an entry of the legal-action vector of player
IsLegal(player, action) ==
    \E i \in 1 .. Len(legalActions_[player + 1]) :
        legalActions_[player + 1][i] = action

\* C28: legal-action completeness -- for each player, every action that
\* decodes to a position without a peg is in the player's legal-action
\* vector, and the vector holds no action twice
C28_LegalComplete ==
    \A player \in Players :
        /\ \A action \in 0 .. (NumDistinctActions(size_) - 1) :
               ~HasPeg(ActionToMove(size_, player, action))
                   => IsLegal(player, action)
        /\ \A i, j \in 1 .. Len(legalActions_[player + 1]) :
               i # j => legalActions_[player + 1][i]
                            # legalActions_[player + 1][j]

\* well after a swap the first move's position is free and legal for both
C28_Witness ==
    /\ swapped_
    /\ moveCounter_ >= 4
    /\ ~HasPeg(moveOne_)
    /\ \A player \in Players :
           IsLegal(player, MoveToAction(size_, player, moveOne_))

\* the position GetTensorMove gives the requesting player for the cell at move
TensorMoveFor(player, move) ==
    GetTensorMove(size_, move, TensorTurn(player, GetColor(cell_[move])))

\* C29: observation indices stay in range -- for either requesting player
\* the position GetTensorMove computes for a peg has its first coordinate in
\* 0..n-3 and its second in 0..n-1, every index written into the
\* (6, n, n-2) planes is in bounds, and different pegs of one color are
\* written to different plane cells
C29_TensorInRange ==
    \A player \in Players :
        /\ \A move \in TensorCells :
               /\ TensorMoveFor(player, move)[1] \in 0 .. (size_ - 3)
               /\ TensorMoveFor(player, move)[2] \in 0 .. (size_ - 1)
        /\ ObservationTensor(player)
               \subseteq (0 .. 5) \X (0 .. (size_ - 1)) \X (0 .. (size_ - 3))
        /\ \A p, q \in TensorCells :
               (p # q /\ GetColor(cell_[p]) = GetColor(cell_[q]))
                   => TensorMoveFor(player, p) # TensorMoveFor(player, q)

====
